---- MODULE Spec2Model ----
(***************************************************************************)
(* KvvBufUsed (crates/holochain_sqlite/src/buffer/kvv/buf.rs): a scratch   *)
(* space of per-key value deltas in front of a persisted multi-value       *)
(* table.  Reads merge the scratch with the table, a flush writes the      *)
(* deltas to the table through the caller's write transaction.            *)
(*                                                                         *)
(* Segment and Topology (crates/kitsune_p2p/dht/src/coords.rs): the        *)
(* power-of-two intervals over a u32 coordinate, their halving and bounds, *)
(* and the telescoping decomposition of the time up to now.                *)
(***************************************************************************)
EXTENDS Integers, Sequences, FiniteSets, TLC

\* ------------------------------------------------------------- bounds
\* insert/delete/delete_all calls made in one behaviour.
MaxOps == 2
\* Rows the table holds when the first buffer is created.
MaxStored == 2

\* The largest of the small coordinate values calls are made with.
MaxCoord == 20
\* How far from a power of two the large coordinate values are.
MaxNear == 2
\* The largest of the small powers segments are made with.
MaxPower == 3

\* KvvBufUsed<K, V> at a key type of two keys and a value type of three
\* values (the A, B, C of the merge scenarios), ordered as the integers are.
Keys == 1..2
Values == 1..3

\* ------------------------------------------------------------ helpers
EmptyMap == [x \in {} |-> x]

MapPut(m, k, v) == [x \in (DOMAIN m) \cup {k} |-> IF x = k THEN v ELSE m[x]]

\* The elements of a set of integers in ascending order: the iteration
\* order of a BTreeMap's keys.
RECURSIVE Ascending(_)
Ascending(S) ==
    IF S = {} THEN <<>>
    ELSE LET m == CHOOSE x \in S : \A y \in S : x <= y
         IN  <<m>> \o Ascending(S \ {m})

\* DatabaseResult<V> items.
Ok(v) == [ok |-> TRUE, v |-> v, e |-> "none"]
Err(e) == [ok |-> FALSE, v |-> 0, e |-> e]

\* ------------------------------------------------ serialization, table
\* holochain_serialized_bytes::encode / decode (MessagePack): a small
\* non-negative integer is one byte, the integer itself.
encode(v) == <<v>>
decode(buf) == IF Len(buf) = 1 /\ buf[1] \in Values THEN Ok(buf[1]) ELSE Err("SerializedBytesError")

\* rusqlite::types::Value::Blob(buf)
Blob(buf) == [tag |-> "Blob", buf |-> buf]

\* MultiTable: for each key the set of raw values persisted under it.
table_put(t, k, raw) == [t EXCEPT ![k] = @ \cup {raw}]
table_delete_kv(t, k, raw) == [t EXCEPT ![k] = @ \ {raw}]
table_delete_all(t, k) == [t EXCEPT ![k] = {}]

\* What a row of the table can hold besides a blob: a value of another
\* rusqlite type, no value at all, or a row the read of which fails.
NotBlob == [tag |-> "Integer", buf |-> <<>>]
NoValue == [tag |-> "None", buf |-> <<>>]
Unreadable == [tag |-> "Err", buf |-> <<>>]
\* A blob that is no encoding of a value.
Undecodable == Blob(<<0>>)

\* The table's order of the rows of one key: blobs by their bytes, then
\* the other rows.
row_rank(r) ==
    CASE r.tag = "Blob" -> r.buf[1]
      [] r.tag = "Integer" -> Cardinality(Values) + 1
      [] r.tag = "None" -> Cardinality(Values) + 2
      [] r.tag = "Err" -> Cardinality(Values) + 3

\* get_multi: the rows of k in the table's order, as the items
\* Ok((k, Some(raw))), Ok((k, None)) and Err(e).
get_multi(t, k) ==
    LET ranks == Ascending({row_rank(r) : r \in t[k]})
    IN  [i \in 1..Len(ranks) |->
            LET r == CHOOSE x \in t[k] : row_rank(x) = ranks[i]
            IN  [ok |-> r.tag # "Err", some |-> r.tag \notin {"Err", "None"}, raw |-> r]]

\* ------------------------------------------------------- ValuesDelta
\* Mutant of all_deleted: the entry Default makes, the flag not set.
all_deleted_unflagged == [delete_all |-> FALSE, deltas |-> EmptyMap]

all_deleted == [delete_all |-> TRUE, deltas |-> EmptyMap]
ValuesDelta_default == [delete_all |-> FALSE, deltas |-> EmptyMap]

\* ------------------------------------------------------- KvvBufUsed
new == EmptyMap

or_default(s, k) == IF k \in DOMAIN s THEN s[k] ELSE ValuesDelta_default

\* Mutant of insert: deltas.entry(v).or_insert(Insert), which keeps a delta
\* already recorded for the value.
insert_keeps_first(s, k, v) ==
    LET e == or_default(s, k)
    IN  MapPut(s, k, [e EXCEPT !.deltas =
                         IF v \in DOMAIN @ THEN @ ELSE MapPut(@, v, "Insert")])

insert(s, k, v) ==
    LET e == or_default(s, k)
    IN  MapPut(s, k, [e EXCEPT !.deltas = MapPut(@, v, "Insert")])

delete(s, k, v) ==
    LET e == or_default(s, k)
    IN  MapPut(s, k, [e EXCEPT !.deltas = MapPut(@, v, "Delete")])

\* Mutant of delete_all: the flag is set on the entry, its deltas are kept.
delete_all_keeps_deltas(s, k) ==
    MapPut(s, k, [or_default(s, k) EXCEPT !.delete_all = TRUE])

\* Mutant of delete_all: the scratch is cleared before the entry is put.
delete_all_clears_scratch(s, k) == MapPut(new, k, all_deleted)

delete_all(s, k) == MapPut(s, k, all_deleted)

\* Mutant of get_persisted_rows: the arm for Some(_) comes before the arm
\* for Some(Blob(buf)), so every row that has a value is an InvalidValue.
RECURSIVE get_persisted_rows_any_first(_)
get_persisted_rows_any_first(rows) ==
    IF rows = <<>> THEN <<>>
    ELSE LET r == Head(rows)
             rest == get_persisted_rows_any_first(Tail(rows))
         IN  IF ~r.ok THEN <<Err("DatabaseError")>> \o rest
             ELSE IF ~r.some THEN rest
             ELSE <<Err("InvalidValue")>> \o rest

\* filter_map over the rows get_multi yields.
RECURSIVE get_persisted_rows(_)
get_persisted_rows(rows) ==
    IF rows = <<>> THEN <<>>
    ELSE LET r == Head(rows)
             rest == get_persisted_rows(Tail(rows))
         IN  IF ~r.ok THEN <<Err("DatabaseError")>> \o rest
             ELSE IF ~r.some THEN rest
             ELSE IF r.raw.tag = "Blob" THEN <<decode(r.raw.buf)>> \o rest
             ELSE <<Err("InvalidValue")>> \o rest

get_persisted(t, k) == get_persisted_rows(get_multi(t, k))

\* Mutant of get: the persisted values are filtered by what was returned
\* from the scratch only, so a value marked Delete passes.
get_keeps_deleted(s, t, k) ==
    IF k \notin DOMAIN s THEN get_persisted(t, k)
    ELSE LET deltas == s[k].deltas
             ins == Ascending({v \in DOMAIN deltas : deltas[v] = "Insert"})
             from_scratch_space == [i \in 1..Len(ins) |-> Ok(ins[i])]
         IN  IF s[k].delete_all THEN from_scratch_space
             ELSE from_scratch_space \o
                  SelectSeq(get_persisted(t, k),
                            LAMBDA r : IF r.ok THEN r.v \notin {ins[i] : i \in DOMAIN ins} ELSE TRUE)

\* Mutant of get: the filter over the persisted items drops the errors
\* (Err(_e) => false).
get_drops_errors(s, t, k) ==
    IF k \notin DOMAIN s THEN get_persisted(t, k)
    ELSE LET deltas == s[k].deltas
             ins == Ascending({v \in DOMAIN deltas : deltas[v] = "Insert"})
             from_scratch_space == [i \in 1..Len(ins) |-> Ok(ins[i])]
         IN  IF s[k].delete_all THEN from_scratch_space
             ELSE from_scratch_space \o
                  SelectSeq(get_persisted(t, k),
                            LAMBDA r : IF r.ok THEN r.v \notin DOMAIN deltas ELSE FALSE)

\* Mutant of get: the filter over the persisted items drops the values
\* marked Delete only, so a persisted value marked Insert passes.
get_filters_deleted_only(s, t, k) ==
    IF k \notin DOMAIN s THEN get_persisted(t, k)
    ELSE LET deltas == s[k].deltas
             ins == Ascending({v \in DOMAIN deltas : deltas[v] = "Insert"})
             from_scratch_space == [i \in 1..Len(ins) |-> Ok(ins[i])]
         IN  IF s[k].delete_all THEN from_scratch_space
             ELSE from_scratch_space \o
                  SelectSeq(get_persisted(t, k),
                            LAMBDA r : IF r.ok
                                       THEN ~(r.v \in DOMAIN deltas /\ deltas[r.v] = "Delete")
                                       ELSE TRUE)

\* Mutant of get: the scratch is not consulted.
get_reads_table_only(s, t, k) == get_persisted(t, k)

get(s, t, k) ==
    IF k \notin DOMAIN s THEN get_persisted(t, k)
    ELSE LET deltas == s[k].deltas
             ins == Ascending({v \in DOMAIN deltas : deltas[v] = "Insert"})
             from_scratch_space == [i \in 1..Len(ins) |-> Ok(ins[i])]
         IN  IF s[k].delete_all THEN from_scratch_space
             ELSE from_scratch_space \o
                  SelectSeq(get_persisted(t, k),
                            LAMBDA r : IF r.ok THEN r.v \notin DOMAIN deltas ELSE TRUE)

is_clean(s) == DOMAIN s = {}

\* ------------------------------------------------- flush_to_txn_ref
\* The flush as it runs: the table as written so far, the table calls
\* issued (with their outcome), the number of writes attempted, and the
\* result: "Ok" until a `?` returns an error.
Flushing(t) == [table |-> t, log |-> <<>>, n |-> 0, res |-> "Ok"]

NoRaw == [tag |-> "None", buf |-> <<>>]

table_apply(t, call) ==
    CASE call.op = "put" -> table_put(t, call.k, call.raw)
      [] call.op = "delete_kv" -> table_delete_kv(t, call.k, call.raw)
      [] call.op = "delete_all" -> table_delete_all(t, call.k)

\* Mutant of table_call: the result of the table call is dropped (no `?`),
\* so the flush goes on after a failed write.
table_call_drops_error(w, op, k, raw, fail) ==
    IF w.res # "Ok" THEN w
    ELSE IF fail.at = w.n + 1 /\ fail.kind = "table"
    THEN [w EXCEPT !.n = @ + 1,
                   !.log = Append(@, [op |-> op, k |-> k, raw |-> raw, ok |-> FALSE])]
    ELSE [w EXCEPT !.n = @ + 1,
                   !.log = Append(@, [op |-> op, k |-> k, raw |-> raw, ok |-> TRUE]),
                   !.table = table_apply(@, [op |-> op, k |-> k, raw |-> raw])]

\* self.table.<op>(writer, ..)?  The environment makes write number
\* fail.at fail, at its table call (fail.kind = "table") or before it, at
\* the encoding of the value (fail.kind = "encode").
table_call(w, op, k, raw, fail) ==
    IF w.res # "Ok" THEN w
    ELSE IF fail.at = w.n + 1 /\ fail.kind = "table"
    THEN [w EXCEPT !.n = @ + 1,
                   !.log = Append(@, [op |-> op, k |-> k, raw |-> raw, ok |-> FALSE]),
                   !.res = "DatabaseError"]
    ELSE [w EXCEPT !.n = @ + 1,
                   !.log = Append(@, [op |-> op, k |-> k, raw |-> raw, ok |-> TRUE]),
                   !.table = table_apply(@, [op |-> op, k |-> k, raw |-> raw])]

\* let buf = encode(&v)?; let encoded = Blob(buf); self.table.<op>(writer, &k, &encoded)?
encode_and_call(w, op, k, v, fail) ==
    IF w.res # "Ok" THEN w
    ELSE IF fail.at = w.n + 1 /\ fail.kind = "encode"
    THEN [w EXCEPT !.n = @ + 1, !.res = "SerializedBytesError"]
    ELSE table_call(w, op, k, Blob(encode(v)), fail)

\* Mutant of flush_delta: no Delete is written, with or without delete_all.
flush_delta_skips_delete(w, k, v, op, da, fail) ==
    CASE op = "Insert" -> encode_and_call(w, "put", k, v, fail)
      [] op = "Delete" -> w

\* match op { Insert => .., Delete if *delete_all => {}, Delete => .. }
flush_delta(w, k, v, op, da, fail) ==
    CASE op = "Insert" -> encode_and_call(w, "put", k, v, fail)
      [] op = "Delete" /\ da -> w
      [] op = "Delete" /\ ~da -> encode_and_call(w, "delete_kv", k, v, fail)

\* for (v, op) in deltas
RECURSIVE flush_deltas(_, _, _, _, _)
flush_deltas(w, k, vs, vd, fail) ==
    IF vs = <<>> \/ w.res # "Ok" THEN w
    ELSE flush_deltas(flush_delta(w, k, Head(vs), vd.deltas[Head(vs)], vd.delete_all, fail),
                      k, Tail(vs), vd, fail)

\* Mutant of flush_key: the delete_all is issued after the key's deltas.
flush_key_deletes_last(w, k, vd, fail) ==
    LET w1 == flush_deltas(w, k, Ascending(DOMAIN vd.deltas), vd, fail)
    IN  IF vd.delete_all THEN table_call(w1, "delete_all", k, NoRaw, fail) ELSE w1

\* The body of the loop over the scratch for one key.
flush_key(w, k, vd, fail) ==
    LET w1 == IF vd.delete_all THEN table_call(w, "delete_all", k, NoRaw, fail) ELSE w
    IN  flush_deltas(w1, k, Ascending(DOMAIN vd.deltas), vd, fail)

\* for (k, ValuesDelta { delete_all, deltas }) in self.scratch.iter()
RECURSIVE flush_keys(_, _, _, _)
flush_keys(w, ks, s, fail) ==
    IF ks = <<>> \/ w.res # "Ok" THEN w
    ELSE flush_keys(flush_key(w, Head(ks), s[Head(ks)], fail), Tail(ks), s, fail)

\* Mutant of flush_to_txn_ref: a clean buffer is refused with an error.
flush_refuses_clean(s, t, fail) ==
    IF is_clean(s) THEN [Flushing(t) EXCEPT !.res = "DatabaseError"]
    ELSE flush_keys(Flushing(t), Ascending(DOMAIN s), s, fail)

flush_to_txn_ref(s, t, fail) ==
    IF is_clean(s) THEN Flushing(t)
    ELSE flush_keys(Flushing(t), Ascending(DOMAIN s), s, fail)

NoFail == [at |-> 0, kind |-> "table"]

\* Mutant of flush_scratch: the flush ends with self.scratch.clear().
flush_clears_scratch(s) == new

\* Mutant of flush_scratch: the flush drains the deltas of every entry and
\* keeps the entries with their delete_all flags.
flush_drains_deltas(s) == [k \in DOMAIN s |-> [s[k] EXCEPT !.deltas = EmptyMap]]

\* The scratch after flush_to_txn_ref: the loop borrows self.scratch.iter()
\* and nothing in the method clears or changes it, on any return path.
flush_scratch(s) == s

\* ------------------------------------------- u32 and u64 arithmetic
\* (crates/kitsune_p2p/dht/src/coords.rs)  A natural number is held as its
\* binary digits, least significant first, with no leading zero: the
\* values of a u32 and the u64 intermediates reach past the integers the
\* model checker computes with.
RECURSIVE Bits(_)
Bits(n) == IF n = 0 THEN <<>> ELSE <<n % 2>> \o Bits(n \div 2)

\* The number as an integer, for numbers known to be small.
RECURSIVE Num(_)
Num(b) == IF b = <<>> THEN 0 ELSE b[1] + 2 * Num(Tail(b))

RECURSIVE Norm(_)
Norm(b) ==
    IF b = <<>> \/ b[Len(b)] = 1 THEN b ELSE Norm(SubSeq(b, 1, Len(b) - 1))

Digit(b, i) == IF i <= Len(b) THEN b[i] ELSE 0

\* The digits of a + b from digit i on, with the carry c into digit i.
RECURSIVE AddFrom(_, _, _, _)
AddFrom(a, b, i, c) ==
    IF i > Len(a) /\ i > Len(b) THEN (IF c = 1 THEN <<1>> ELSE <<>>)
    ELSE LET d == Digit(a, i) + Digit(b, i) + c
         IN  <<d % 2>> \o AddFrom(a, b, i + 1, d \div 2)

Add(a, b) == IF a = <<>> THEN b ELSE IF b = <<>> THEN a ELSE AddFrom(a, b, 1, 0)

Less(a, b) ==
    \/ Len(a) < Len(b)
    \/ /\ Len(a) = Len(b)
       /\ \E i \in 1..Len(a) : a[i] < b[i] /\ \A j \in (i + 1)..Len(a) : a[j] = b[j]

\* The digits of a - b from digit i on, with the borrow c from digit i.
RECURSIVE SubFrom(_, _, _, _)
SubFrom(a, b, i, c) ==
    IF i > Len(a) THEN <<>>
    ELSE LET d == Digit(a, i) - Digit(b, i) - c
         IN  <<(d + 2) % 2>> \o SubFrom(a, b, i + 1, IF d < 0 THEN 1 ELSE 0)

\* a - b, for b <= a.
Sub(a, b) == Norm(SubFrom(a, b, 1, 0))

\* a * 2^p and 2^p.
Shl(a, p) == IF a = <<>> THEN a ELSE [i \in 1..p |-> 0] \o a
Pow2(p) == Shl(<<1>>, p)

\* a * b: the sum of a * 2^(i - 1) over the digits i of b that are 1, from
\* digit i on.
RECURSIVE MulFrom(_, _, _)
MulFrom(a, b, i) ==
    IF i > Len(b) THEN <<>>
    ELSE LET rest == MulFrom(a, b, i + 1)
         IN  IF b[i] = 1 THEN Add(Shl(a, i - 1), rest) ELSE rest

Mul(a, b) == MulFrom(a, b, 1)

\* The low w bits of a: `as u32`, and what a wrapping operation leaves.
Trunc(a, w) == Norm(SubSeq(a, 1, IF Len(a) < w THEN Len(a) ELSE w))

\* floor(log2(a)) for a > 0.
Log2Floor(a) == Len(a) - 1

\* The width of a coordinate (u32) and of the intermediates of
\* Segment::length and Segment::bounds (u64).
bit_depth == 32
u64_bits == 64

u32_MAX == [i \in 1..bit_depth |-> 1]

\* The outcome of an arithmetic operation of width w whose exact result is
\* x: the value a build without overflow checks goes on with, and whether
\* the operation overflowed (a panic in a build with overflow checks).
Arith(x, w) == [v |-> Trunc(x, w), ovf |-> Len(x) > w]

add(a, b, w) == Arith(Add(a, b), w)
mul(a, b, w) == Arith(Mul(a, b), w)
sub(a, b, w) ==
    IF Less(a, b) THEN [v |-> Sub(Add(a, Pow2(w)), b), ovf |-> TRUE]
    ELSE [v |-> Sub(a, b), ovf |-> FALSE]
\* 2uN.pow(p)
pow2(p, w) == Arith(Pow2(p), w)

\* ------------------------------------------------------------ Segment
\* Segment::new.  The power is held as an integer (it stays far below the
\* integers' end), the offset as a u32.
\* The largest pow exp and exp_wrapping accept (pow: u8).
u8_MAX == 255

\* **self * 2u32.pow(pow as u32)
exp(value, pow) ==
    LET p == pow2(pow, bit_depth)
        m == mul(value, p.v, bit_depth)
    IN  [v |-> m.v, ovf |-> p.ovf \/ m.ovf]

\* (**self as u64 * 2u64.pow(pow as u32)) as u32
exp_wrapping(value, pow) ==
    LET p == pow2(pow, u64_bits)
        m == mul(value, p.v, u64_bits)
    IN  [v |-> Trunc(m.v, bit_depth), ovf |-> p.ovf \/ m.ovf]

Segment_new(power, offset) == [power |-> power, offset |-> offset]

\* 2u64.pow(self.power)
length(seg) == pow2(seg.power, u64_bits)

\* Mutant of bounds: the length and the products are computed in u32.
bounds_in_u32(seg) ==
    LET l == pow2(seg.power, bit_depth)
        o == seg.offset
        ol == mul(o, l.v, bit_depth)
        oll == add(ol.v, l.v, bit_depth)
        h == sub(oll.v, Bits(1), bit_depth)
    IN  [low |-> ol.v, high |-> h.v, ovf |-> l.ovf \/ ol.ovf \/ oll.ovf \/ h.ovf]

\* (C::from((o * l) as u32), C::from((o * l + l - 1) as u32))
bounds(seg) ==
    LET l == length(seg)
        o == seg.offset
        ol == mul(o, l.v, u64_bits)
        oll == add(ol.v, l.v, u64_bits)
        h == sub(oll.v, Bits(1), u64_bits)
    IN  [low |-> Trunc(ol.v, bit_depth), high |-> Trunc(h.v, bit_depth),
         ovf |-> l.ovf \/ ol.ovf \/ oll.ovf \/ h.ovf]

None == [some |-> FALSE, ovf |-> FALSE]

\* Mutant of halve: the offsets of the children are not doubled.
halve_unscaled(seg) ==
    IF seg.power = 0 THEN None
    ELSE LET power == seg.power - 1
             o2 == add(seg.offset, Bits(1), bit_depth)
         IN  [some |-> TRUE, ovf |-> o2.ovf,
              c1 |-> Segment_new(power, seg.offset), c2 |-> Segment_new(power, o2.v)]

\* Mutant of halve: the children are returned in the other order.
halve_swapped(seg) ==
    IF seg.power = 0 THEN None
    ELSE LET power == seg.power - 1
             o1 == mul(seg.offset, Bits(2), bit_depth)
             o2 == add(o1.v, Bits(1), bit_depth)
         IN  [some |-> TRUE, ovf |-> o1.ovf \/ o2.ovf,
              c1 |-> Segment_new(power, o2.v), c2 |-> Segment_new(power, o1.v)]

halve(seg) ==
    IF seg.power = 0 THEN None
    ELSE LET power == seg.power - 1
             o1 == mul(seg.offset, Bits(2), bit_depth)
             o2 == add(o1.v, Bits(1), bit_depth)
         IN  [some |-> TRUE, ovf |-> o1.ovf \/ o2.ovf,
              c1 |-> Segment_new(power, o1.v), c2 |-> Segment_new(power, o2.v)]

\* ----------------------------------------------------------- Topology
\* Dimension::identity().quantum
quantum == 1

\* The helper with another base case or another power: its mutants.
helper_variant(t, offset, base, pow) ==
    IF base THEN [base |-> TRUE]
    ELSE LET len == pow2(pow, bit_depth)
             rest == sub(t, len.v, bit_depth)
             next == add(offset, len.v, bit_depth)
         IN  [base |-> FALSE, seg |-> Segment_new(pow, offset),
              t |-> rest.v, offset |-> next.v,
              ovf |-> pow < 0 \/ len.ovf \/ rest.ovf \/ next.ovf]

\* Mutant of telescoping_times_helper: the power is floor(log2(t + 1)),
\* the `- 1` is missing.
telescoping_times_helper_no_decrement(t, offset) ==
    helper_variant(t, offset, Less(t, Bits(quantum)), Log2Floor(Add(t, Bits(1))))

\* Mutant of telescoping_times_helper: the base case is t <= quantum.
telescoping_times_helper_stops_early(t, offset) ==
    helper_variant(t, offset, ~Less(Bits(quantum), t), Log2Floor(Add(t, Bits(1))) - 1)

\* Mutant of telescoping_times_helper: .ceil() in place of .floor().
telescoping_times_helper_ceil(t, offset) ==
    helper_variant(t, offset, Less(t, Bits(quantum)), Len(t) - 1)

\* Mutant of telescoping_times_helper: every segment is one quantum long.
telescoping_times_helper_unit(t, offset) ==
    helper_variant(t, offset, Less(t, Bits(quantum)), 0)

\* One call of telescoping_times_helper(t, offset): the base case, or the
\* segment it pushes once the call it makes has returned, with the
\* arguments of that call.  floor(log2(t + 1)) is exact in f64 for every
\* u32 t, and at least 1 as t >= quantum.
telescoping_times_helper(t, offset) ==
    IF Less(t, Bits(quantum)) THEN [base |-> TRUE]
    ELSE LET pow == Log2Floor(Add(t, Bits(1))) - 1
             len == pow2(pow, bit_depth)
             rest == sub(t, len.v, bit_depth)
             next == add(offset, len.v, bit_depth)
         IN  [base |-> FALSE, seg |-> Segment_new(pow, offset),
              t |-> rest.v, offset |-> next.v,
              ovf |-> pow < 0 \/ len.ovf \/ rest.ovf \/ next.ovf]

\* Mutant of rev: the helper's vector is returned as it is.
rev_missing(v) == v

\* .into_iter().rev().collect()
rev(v) == [i \in 1..Len(v) |-> v[Len(v) + 1 - i]]

\* ------------------------------------------------------------- state
VARIABLES
    table,      \* the persisted rows: the MultiTable behind the buffer
    scratch,    \* KvvBufUsed.scratch
    last,       \* the most recent call on the buffer: [op, k, v]
    got,        \* what the most recent call returned, when it was a get
    flushed,    \* what the most recent call did, when it was a flush
    nops,       \* insert/delete/delete_all calls made so far
    hist,       \* what has been called on the current buffer, per key
    run         \* the call on the coordinate system that is running

kvv == <<table, scratch, last, got, flushed, nops, hist>>
vars == <<table, scratch, last, got, flushed, nops, hist, run>>

\* No call on the coordinate system has been made.
\* run.op, run.arg: the method called and its argument.
\* run.checks: the build panics on arithmetic overflow (overflow-checks, the
\*   default of a debug build); it wraps otherwise.
\* run.pc: "helper" while telescoping_times_helper descends, "return" while
\*   its calls return, "done" when the method has returned run.out, "panic"
\*   when it has panicked.
\* run.t, run.offset: the arguments of the call of the helper to be made.
\* run.stack: the segments of the calls of the helper that have not returned.
\* run.calls: calls of the helper made so far.
\* run.ovf: an arithmetic operation has overflowed.
Idle ==
    [op |-> "none", pc |-> "idle", checks |-> FALSE, arg |-> <<>>, t |-> <<>>,
     offset |-> <<>>, stack |-> <<>>, out |-> <<>>, calls |-> 0, ovf |-> FALSE]

Call(op, k, v) == [op |-> op, k |-> k, v |-> v]

NoFlush == [res |-> "Ok", log |-> <<>>]

\* hist.live[k]: values inserted since the last delete_all(k), not deleted since.
\* hist.dead[k]: values deleted since the last delete_all(k), not inserted since.
\* hist.wiped: keys delete_all was called for.
\* hist.dropped[k]: values inserted before the last delete_all(k), not inserted since.
\* hist.over: the key and value of the most recent insert or delete call and
\*   what it found recorded for them ("Insert", "Delete", or "none").
\* hist.done: the buffer has been flushed.
\* hist.twice: the buffer has been flushed more than once.
NoHist ==
    [done |-> FALSE, twice |-> FALSE, live |-> [k \in Keys |-> {}], dead |-> [k \in Keys |-> {}],
     wiped |-> {}, dropped |-> [k \in Keys |-> {}],
     over |-> [k |-> 0, v |-> 0, was |-> "none"]]

Found(h, k, v) ==
    [k |-> k, v |-> v, was |->
        IF v \in h.live[k] THEN "Insert" ELSE IF v \in h.dead[k] THEN "Delete" ELSE "none"]

Seeded == {t \in [Keys -> SUBSET {Blob(encode(v)) : v \in Values}] :
              Cardinality(UNION {{<<k, r>> : r \in t[k]} : k \in Keys}) <= MaxStored}

\* Tables that also hold rows get_persisted cannot turn into a value.
SeededRows ==
    {t \in [Keys -> SUBSET {Blob(encode(1)), Undecodable, NotBlob, NoValue, Unreadable}] :
        Cardinality(UNION {{<<k, r>> : r \in t[k]} : k \in Keys}) <= MaxStored}

Init ==
    /\ table \in Seeded
    /\ scratch = new
    /\ last = Call("new", 0, 0)
    /\ got = <<>>
    /\ flushed = NoFlush
    /\ nops = 0
    /\ hist = NoHist
    /\ run = Idle

\* A buffer is filled, then flushed, then dropped: it takes no insert,
\* delete or delete_all once it has been flushed.  A failed flush leaves
\* the transaction to its caller, who aborts it: the buffer is then
\* flushed again or dropped, and not read.
Usable == flushed.res = "Ok"
Filling == Usable /\ ~hist.done

Insert(k, v) ==
    /\ Filling
    /\ nops < MaxOps
    /\ scratch' = insert(scratch, k, v)
    /\ last' = Call("insert", k, v)
    /\ nops' = nops + 1
    /\ hist' = [hist EXCEPT !.live[k] = @ \cup {v}, !.dead[k] = @ \ {v},
                            !.dropped[k] = @ \ {v}, !.over = Found(hist, k, v)]
    /\ got' = <<>>
    /\ flushed' = NoFlush
    /\ UNCHANGED <<table, run>>

Delete(k, v) ==
    /\ Filling
    /\ nops < MaxOps
    /\ scratch' = delete(scratch, k, v)
    /\ last' = Call("delete", k, v)
    /\ nops' = nops + 1
    /\ hist' = [hist EXCEPT !.live[k] = @ \ {v}, !.dead[k] = @ \cup {v},
                            !.over = Found(hist, k, v)]
    /\ got' = <<>>
    /\ flushed' = NoFlush
    /\ UNCHANGED <<table, run>>

DeleteAll(k) ==
    /\ Filling
    /\ nops < MaxOps
    /\ scratch' = delete_all(scratch, k)
    /\ last' = Call("delete_all", k, 0)
    /\ nops' = nops + 1
    /\ hist' = [hist EXCEPT !.live[k] = {}, !.dead[k] = {}, !.wiped = @ \cup {k},
                            !.dropped[k] = @ \cup hist.live[k], !.over = NoHist.over]
    /\ got' = <<>>
    /\ flushed' = NoFlush
    /\ UNCHANGED <<table, run>>

Get(k) ==
    /\ Usable
    /\ got' = get(scratch, table, k)
    /\ last' = Call("get", k, 0)
    /\ flushed' = NoFlush
    /\ UNCHANGED <<table, scratch, nops, hist, run>>

Flush(fail) ==
    /\ LET w == flush_to_txn_ref(scratch, table, fail)
       IN  /\ table' = w.table
           /\ flushed' = [res |-> w.res, log |-> w.log]
    /\ last' = Call("flush", 0, 0)
    /\ got' = <<>>
    /\ scratch' = flush_scratch(scratch)
    /\ hist' = [hist EXCEPT !.done = TRUE, !.twice = hist.done]
    /\ UNCHANGED <<nops, run>>

\* The buffer is dropped after its flush and a new one made over the table.
NewBuffer ==
    /\ hist.done
    /\ scratch' = new
    /\ last' = Call("new", 0, 0)
    /\ got' = <<>>
    /\ flushed' = NoFlush
    /\ hist' = NoHist
    /\ UNCHANGED <<table, nops, run>>

\* The writes a flush of s attempts: one for each delta and each delete_all,
\* less the deletes a delete_all makes unnecessary.
Attempts(s) ==
    Cardinality({k \in DOMAIN s : s[k].delete_all}) +
    Cardinality({kv \in Keys \X Values :
                    /\ kv[1] \in DOMAIN s
                    /\ kv[2] \in DOMAIN s[kv[1]].deltas
                    /\ ~(s[kv[1]].delete_all /\ s[kv[1]].deltas[kv[2]] = "Delete")})

\* The environment: which write of the flush fails (at = 0: none), and where.
Fails == {NoFail} \cup [at : 1..Attempts(scratch), kind : {"table", "encode"}]

\* Every write of every flush succeeds.
Next ==
    \/ \E k \in Keys, v \in Values : Insert(k, v)
    \/ \E k \in Keys, v \in Values : Delete(k, v)
    \/ \E k \in Keys : DeleteAll(k)
    \/ \E k \in Keys : Get(k)
    \/ Flush(NoFail)
    \/ NewBuffer

Spec == Init /\ [][Next]_vars

\* A write of a flush may fail; the caller then aborts the transaction.
NextFail ==
    \/ \E k \in Keys, v \in Values : Insert(k, v)
    \/ \E k \in Keys, v \in Values : Delete(k, v)
    \/ \E k \in Keys : DeleteAll(k)
    \/ Usable /\ \E fail \in Fails : Flush(fail)

SpecFail == Init /\ [][NextFail]_vars

\* Reads of a table that holds rows of every kind.
InitRows ==
    /\ table \in SeededRows
    /\ scratch = new
    /\ last = Call("new", 0, 0)
    /\ got = <<>>
    /\ flushed = NoFlush
    /\ nops = 0
    /\ hist = NoHist
    /\ run = Idle

NextRows ==
    \/ \E k \in Keys, v \in Values : Insert(k, v)
    \/ \E k \in Keys, v \in Values : Delete(k, v)
    \/ \E k \in Keys : DeleteAll(k)
    \/ \E k \in Keys : Get(k)

SpecRows == InitRows /\ [][NextRows]_vars

\* ---------------------------------------------- the coordinate system
\* The u32 values calls are made with: the small ones, and the ones within
\* MaxNear of a power of two, up to u32::MAX.
Coords ==
    {Bits(n) : n \in 0..MaxCoord} \cup
    {Add(Pow2(j), Bits(d)) : j \in 0..(bit_depth - 1), d \in 0..MaxNear} \cup
    {Sub(Pow2(j), Bits(d)) : j \in 2..bit_depth, d \in 1..MaxNear}

\* The powers segments are made with: the small ones, those around the
\* width of a coordinate, and those at which the length no longer fits a u64.
Powers ==
    0..MaxPower \cup {bit_depth - 1, bit_depth, bit_depth + 1} \cup {u64_bits - 1, u64_bits}

InitCoords ==
    /\ table = [k \in Keys |-> {}]
    /\ scratch = new
    /\ last = Call("new", 0, 0)
    /\ got = <<>>
    /\ flushed = NoFlush
    /\ nops = 0
    /\ hist = NoHist
    /\ run = Idle

\* topo.telescoping_times(now): the first call of the helper is (*now, 0).
TelescopingTimes(now, checks) ==
    /\ run.pc = "idle"
    /\ run' = [Idle EXCEPT !.op = "telescoping_times", !.pc = "helper",
                           !.checks = checks, !.arg = now, !.t = now]
    /\ UNCHANGED kvv

\* A call of telescoping_times_helper, up to the call it makes.
Helper ==
    /\ run.pc = "helper"
    /\ LET c == telescoping_times_helper(run.t, run.offset)
       IN  run' = IF c.base THEN [run EXCEPT !.pc = "return", !.calls = @ + 1]
                  ELSE IF c.ovf /\ run.checks
                  THEN [run EXCEPT !.pc = "panic", !.calls = @ + 1, !.ovf = TRUE]
                  ELSE [run EXCEPT !.calls = @ + 1, !.ovf = @ \/ c.ovf,
                                   !.t = c.t, !.offset = c.offset,
                                   !.stack = Append(@, c.seg)]
    /\ UNCHANGED kvv

\* The innermost call that has not returned does: v.push(..); v
Return ==
    /\ run.pc = "return"
    /\ run.stack # <<>>
    /\ run' = [run EXCEPT !.out = Append(@, run.stack[Len(run.stack)]),
                          !.stack = SubSeq(@, 1, Len(@) - 1)]
    /\ UNCHANGED kvv

\* telescoping_times returns the helper's vector, reversed.
Collect ==
    /\ run.pc = "return"
    /\ run.stack = <<>>
    /\ run' = [run EXCEPT !.pc = "done", !.out = rev(@)]
    /\ UNCHANGED kvv

\* Segment::new(power, offset).halve()
Halve(power, offset, checks) ==
    /\ run.pc = "idle"
    /\ LET seg == Segment_new(power, offset)
           h == halve(seg)
       IN  run' = [Idle EXCEPT !.op = "halve", !.checks = checks, !.arg = seg,
                              !.ovf = h.ovf,
                              !.pc = IF h.ovf /\ checks THEN "panic" ELSE "done",
                              !.out = IF h.ovf /\ checks THEN <<>> ELSE h]
    /\ UNCHANGED kvv

NextCoords ==
    \/ run.pc = "idle" /\ \E now \in Coords, checks \in BOOLEAN :
          TelescopingTimes(now, checks)
    \/ Helper
    \/ Return
    \/ Collect
    \/ run.pc = "idle" /\ \E power \in Powers, offset \in Coords, checks \in BOOLEAN :
          Halve(power, offset, checks)

SpecCoords == InitCoords /\ [][NextCoords]_vars

\* ------------------------------------- calls that return in one step
\* The outcome of a call whose arithmetic gave r (r.ovf: it overflowed) and
\* which returns out when it returns.
Returned(op, arg, checks, r, out) ==
    [Idle EXCEPT !.op = op, !.checks = checks, !.arg = arg, !.ovf = r.ovf,
                 !.pc = IF r.ovf /\ checks THEN "panic" ELSE "done",
                 !.out = IF r.ovf /\ checks THEN <<>> ELSE out]

\* Segment::new(power, offset).bounds()
Bounds(power, offset, checks) ==
    /\ run.pc = "idle"
    /\ LET seg == Segment_new(power, offset)
           b == bounds(seg)
       IN  run' = Returned("bounds", seg, checks, b, [low |-> b.low, high |-> b.high])
    /\ UNCHANGED kvv

\* Dimension::identity()
Dimension_identity == [quantum |-> quantum, size |-> u32_MAX, bit_depth |-> bit_depth]

\* const D: Dimension
D == [quantum |-> 1, size |-> Bits(1), bit_depth |-> 1]

\* Topology::identity(time_origin)
Topology_identity(time_origin) ==
    [space |-> Dimension_identity, time |-> Dimension_identity, time_origin |-> time_origin]

\* The messages of the two assertions.
space_unsupported == "Alternate quantizations of space are not yet supported"
time_unsupported == "Alternate quantizations of time are not yet supported"

\* Mutant of space_coord: the assertion looks at the time dimension.
space_coord_asserts_time(topo, loc) ==
    IF topo.time # Dimension_identity THEN Err(space_unsupported) ELSE Ok(loc)

\* Topology::space_coord: assert_eq!(self.space, Dimension::identity(), ..);
\* (loc.as_u32()).into(). A Loc is held as its u32.
space_coord(topo, loc) ==
    IF topo.space # Dimension_identity THEN Err(space_unsupported) ELSE Ok(loc)

\* Topology::time_coord: assert_eq!(self.time, Dimension::identity(), ..);
\* (timestamp.as_micros() as u32).into(). A Timestamp is held as the 64 bits
\* of its i64 count of microseconds, so that 'as u32' keeps the low 32 bits
\* of negative counts too.
time_coord(topo, timestamp) ==
    IF topo.time # Dimension_identity THEN Err(time_unsupported)
    ELSE Ok(Trunc(timestamp, bit_depth))

\* The dimensions topologies are made of: the identity, the constant D, and
\* the identity with one field changed.
Dimensions ==
    {Dimension_identity, D,
     [Dimension_identity EXCEPT !.quantum = 2],
     [Dimension_identity EXCEPT !.size = Sub(u32_MAX, Bits(1))],
     [Dimension_identity EXCEPT !.bit_depth = bit_depth - 1]}

\* Timestamps, as 64-bit patterns: small counts, counts around 2^32, one
\* beyond, and -1.
Timestamps ==
    {Bits(n) : n \in 0..MaxNear} \cup
    {Sub(Pow2(bit_depth), Bits(1)), Pow2(bit_depth), Add(Pow2(bit_depth), Bits(MaxNear)),
     Add(Pow2(bit_depth + MaxPower), Bits(1)), Sub(Pow2(u64_bits), Bits(1))}

Origins == {Bits(0), Bits(1), Pow2(bit_depth), Sub(Pow2(u64_bits), Bits(1))}

Topologies == [space : Dimensions, time : Dimensions, time_origin : Origins]

Locs == {Bits(n) : n \in 0..MaxNear} \cup {u32_MAX}

\* The outcome of a call that ends in its assertion or returns r.v.
Asserted(op, arg, r) ==
    [Idle EXCEPT !.op = op, !.arg = arg,
                 !.pc = IF r.ok THEN "done" ELSE "panic",
                 !.out = IF r.ok THEN r.v ELSE r.e]

\* topo.space_coord(loc)
SpaceCoord(topo, loc) ==
    /\ run.pc = "idle"
    /\ run' = Asserted("space_coord", [topo |-> topo, loc |-> loc], space_coord(topo, loc))
    /\ UNCHANGED kvv

\* topo.time_coord(timestamp)
TimeCoord(topo, timestamp) ==
    /\ run.pc = "idle"
    /\ run' = Asserted("time_coord", [topo |-> topo, timestamp |-> timestamp],
                       time_coord(topo, timestamp))
    /\ UNCHANGED kvv

\* ------------------------------------------------------------ regions
\* RegionCoords: a space segment and a time segment. Its halve() halves one
\* axis and keeps the other; which axis is a parameter here.
RegionCoords_halve(coords, axis) ==
    LET h == halve(coords[axis])
    IN  IF ~h.some THEN None
        ELSE [some |-> TRUE, ovf |-> h.ovf,
              c1 |-> [coords EXCEPT ![axis] = h.c1],
              c2 |-> [coords EXCEPT ![axis] = h.c2]]

\* RegionCoords::to_bounds: the bounds of the two segments.
to_bounds(coords) ==
    LET x == bounds(coords.space)
        t == bounds(coords.time)
    IN  [x |-> <<x.low, x.high>>, t |-> <<t.low, t.high>>, ovf |-> x.ovf \/ t.ovf]

\* TreeImpl::lookup: the data the tree holds for the bounds, a function of
\* the tree's contents and the bounds alone.
lookup(tree, b) == [tree |-> tree, x |-> b.x, t |-> b.t]

\* Mutant of split: the children keep the data of the region.
split_inherits_data(region, tree, axis) ==
    LET h == RegionCoords_halve(region.coords, axis)
    IN  IF ~h.some THEN None
        ELSE [some |-> TRUE, ovf |-> h.ovf,
              r1 |-> [coords |-> h.c1, data |-> region.data],
              r2 |-> [coords |-> h.c2, data |-> region.data]]

\* RegionImpl::split(self, tree)
split(region, tree, axis) ==
    LET h == RegionCoords_halve(region.coords, axis)
    IN  IF ~h.some THEN None
        ELSE LET b1 == to_bounds(h.c1)
                 b2 == to_bounds(h.c2)
                 d1 == lookup(tree, b1)
                 d2 == lookup(tree, b2)
             IN  [some |-> TRUE, ovf |-> h.ovf \/ b1.ovf \/ b2.ovf,
                  r1 |-> [coords |-> h.c1, data |-> d1],
                  r2 |-> [coords |-> h.c2, data |-> d2]]

\* The segments regions are made of: those of the small powers at the first
\* two offsets, the whole coordinate space and its upper half.
RegionSegments ==
    {Segment_new(power, offset) : power \in 0..MaxPower, offset \in {Bits(0), Bits(1)}} \cup
    {Segment_new(bit_depth, Bits(0)), Segment_new(bit_depth - 1, Bits(1))}

Trees == {"t1", "t2"}

\* The regions: coordinates with the data some tree holds for them.
Regions ==
    {[coords |-> coords, data |-> lookup(tree, to_bounds(coords))] :
        coords \in [space : RegionSegments, time : RegionSegments], tree \in Trees}

Axes == {"space", "time"}

\* region.split(&tree)
Split(region, tree, axis, checks) ==
    /\ run.pc = "idle"
    /\ LET r == split(region, tree, axis)
       IN  run' = Returned("split", [region |-> region, tree |-> tree, axis |-> axis],
                           checks, r, r)
    /\ UNCHANGED kvv

\* The pow arguments: the powers of the segments and the largest u8.
Pows == Powers \cup {u8_MAX}

\* Coord::exp on a coordinate of the given value
Exp(value, pow, checks) ==
    /\ run.pc = "idle"
    /\ LET e == exp(value, pow)
       IN  run' = Returned("exp", [value |-> value, pow |-> pow], checks, e, e.v)
    /\ UNCHANGED kvv

\* Coord::exp_wrapping on a coordinate of the given value
ExpWrapping(value, pow, checks) ==
    /\ run.pc = "idle"
    /\ LET e == exp_wrapping(value, pow)
       IN  run' = Returned("exp_wrapping", [value |-> value, pow |-> pow], checks, e, e.v)
    /\ UNCHANGED kvv

NextCalls ==
    \/ run.pc = "idle" /\ \E power \in Powers, offset \in Coords, checks \in BOOLEAN :
          Bounds(power, offset, checks)
    \/ run.pc = "idle" /\ \E value \in Coords, pow \in Pows, checks \in BOOLEAN :
          Exp(value, pow, checks)
    \/ run.pc = "idle" /\ \E value \in Coords, pow \in Pows, checks \in BOOLEAN :
          ExpWrapping(value, pow, checks)
    \/ run.pc = "idle" /\ \E topo \in Topologies, loc \in Locs : SpaceCoord(topo, loc)
    \/ run.pc = "idle" /\ \E topo \in Topologies, timestamp \in Timestamps :
          TimeCoord(topo, timestamp)
    \/ run.pc = "idle" /\ \E region \in Regions, tree \in Trees, axis \in Axes,
                              checks \in BOOLEAN :
          Split(region, tree, axis, checks)

SpecCalls == InitCoords /\ [][NextCalls]_vars

\* ------------------------------------------------------------ claims
\* The values a result of get holds, and whether every item of it is Ok.
Vals(items) == {items[i].v : i \in {j \in DOMAIN items : items[j].ok}}
AllOk(items) == \A i \in DOMAIN items : items[i].ok

\* The values whose encoding the table holds under k.
Persisted(t, k) == {v \in Values : Blob(encode(v)) \in t[k]}

Marked(d, op) == {v \in DOMAIN d : d[v] = op}

\* C1: for a key with a scratch entry whose delete_all is false, get returns
\* exactly the values marked Insert plus the persisted values that have no
\* delta at all; a value marked Delete is never returned (persisted {A,B},
\* delete(k,A), insert(k,C) gives exactly {B,C}).
C1_GetMergesPartial ==
    (last.op = "get" /\ last.k \in DOMAIN scratch /\ ~scratch[last.k].delete_all) =>
        LET d == scratch[last.k].deltas
            p == Persisted(table, last.k)
        IN  /\ AllOk(got)
            /\ Vals(got) = Marked(d, "Insert") \cup (p \ DOMAIN d)
            /\ Vals(got) \cap Marked(d, "Delete") = {}
            /\ (p = {1, 2} /\ d = (1 :> "Delete" @@ 3 :> "Insert")) => Vals(got) = {2, 3}

C1_Witness ==
    /\ last.op = "get"
    /\ Persisted(table, last.k) = {1, 2}
    /\ last.k \in DOMAIN scratch
    /\ scratch[last.k] = [delete_all |-> FALSE, deltas |-> (1 :> "Delete" @@ 3 :> "Insert")]
    /\ Vals(got) = {2, 3}

\* C2: once delete_all(k) has been called, and before any flush, get(k)
\* returns exactly the values inserted for k since and not deleted again,
\* and no other persisted value (persisted {A,B}, delete_all(k),
\* insert(k,C) gives exactly {C}).
C2_GetAfterDeleteAll ==
    (last.op = "get" /\ last.k \in hist.wiped /\ ~hist.done) =>
        /\ AllOk(got)
        /\ Vals(got) = hist.live[last.k]
        /\ Vals(got) \cap (Persisted(table, last.k) \ hist.live[last.k]) = {}

C2_Witness ==
    /\ last.op = "get"
    /\ last.k \in hist.wiped
    /\ ~hist.done
    /\ Persisted(table, last.k) = {1, 2}
    /\ hist.live[last.k] = {3}
    /\ Vals(got) = {3}

\* C3: after a successful flush a brand-new buffer over the same table
\* returns, for every key, the set of values the flushed buffer returned
\* right before the flush; it includes every value inserted and not
\* deleted afterwards.
C3_FlushThenFreshRead ==
    [][(last'.op = "flush" /\ flushed'.res = "Ok") =>
          \A k \in Keys :
              /\ AllOk(get(new, table', k))
              /\ Vals(get(new, table', k)) = Vals(get(scratch, table, k))
              /\ hist.live[k] \subseteq Vals(get(new, table', k))]_vars

C3_Witness ==
    /\ last.op = "flush"
    /\ flushed.res = "Ok"
    /\ \E i, j \in DOMAIN flushed.log :
          flushed.log[i].op = "put" /\ flushed.log[j].op = "delete_kv"
    /\ \E k \in Keys : Persisted(table, k) # {} /\ hist.live[k] # {}

\* C4: for a key with no scratch entry get returns exactly the values
\* persisted for it, whether or not other keys have entries.
C4_GetUnmodifiedKey ==
    (last.op = "get" /\ last.k \notin DOMAIN scratch) =>
        /\ AllOk(got)
        /\ Vals(got) = Persisted(table, last.k)
        /\ Len(got) = Cardinality(table[last.k])

C4_Witness ==
    /\ last.op = "get"
    /\ last.k \notin DOMAIN scratch
    /\ DOMAIN scratch # {}
    /\ Cardinality(table[last.k]) = 2
    /\ Len(got) = 2

\* The table after the calls of a sequence, in order.
RECURSIVE ApplyAll(_, _)
ApplyAll(t, calls) ==
    IF calls = <<>> THEN t ELSE ApplyAll(table_apply(t, Head(calls)), Tail(calls))

SameCall(a, b) == a.op = b.op /\ a.k = b.k /\ a.raw = b.raw

\* C5: when a write of a flush fails (the encoding of a value, or put,
\* delete_kv or delete_all on the table), the flush stops there and returns
\* the error: the calls issued are a prefix of those of a flush without
\* failure, a failed call is the last one and is issued once, and the table
\* holds the effect of every call that succeeded before it.
C5_FlushStopsAtFailure ==
    [][last'.op = "flush" =>
          LET log == flushed'.log
              n == Len(log)
              plan == flush_to_txn_ref(scratch, table, NoFail).log
          IN  /\ n <= Len(plan)
              /\ \A i \in 1..n : SameCall(log[i], plan[i])
              /\ \A i \in 1..n : ~log[i].ok => (i = n /\ flushed'.res = "DatabaseError")
              /\ flushed'.res = "DatabaseError" => (n >= 1 /\ ~log[n].ok)
              /\ flushed'.res = "SerializedBytesError" =>
                    (n < Len(plan) /\ plan[n + 1].op \in {"put", "delete_kv"})
              /\ flushed'.res = "Ok" => n = Len(plan)
              /\ flushed'.res \in {"Ok", "DatabaseError", "SerializedBytesError"}
              /\ table' = ApplyAll(table, SelectSeq(log, LAMBDA c : c.ok))]_vars

C5_Witness ==
    /\ last.op = "flush"
    /\ flushed.res # "Ok"
    /\ Len(flushed.log) >= 1
    /\ flushed.log[1].ok
    /\ flushed.log[1].op = "put"
    /\ flushed.log[1].raw \in table[flushed.log[1].k]
    /\ Len(flush_to_txn_ref(scratch, table, NoFail).log) = 2

\* C6: a flush visits the scratch keys in ascending order and, for a key
\* whose delete_all flag is set, issues the table's delete_all before any
\* put for that key, so the values inserted after delete_all(k) are
\* persisted after the flush.
C6_FlushOrder ==
    (last.op = "flush" /\ flushed.res = "Ok") =>
        LET log == flushed.log
        IN  /\ \A i, j \in DOMAIN log : i < j => log[i].k <= log[j].k
            /\ \A k \in DOMAIN scratch : \E i \in DOMAIN log : log[i].k = k
            /\ \A k \in DOMAIN scratch : scratch[k].delete_all =>
                  \E i \in DOMAIN log :
                      /\ log[i].op = "delete_all" /\ log[i].k = k
                      /\ \A j \in DOMAIN log :
                            (log[j].op = "put" /\ log[j].k = k) => i < j
            /\ \A k \in hist.wiped : hist.live[k] \subseteq Persisted(table, k)

C6_Witness ==
    /\ last.op = "flush"
    /\ flushed.res = "Ok"
    /\ \E k \in hist.wiped :
          /\ hist.live[k] # {}
          /\ Len(flushed.log) = 2
          /\ flushed.log[1].op = "delete_all" /\ flushed.log[1].k = k
          /\ flushed.log[2].op = "put" /\ flushed.log[2].k = k
          /\ Persisted(table, k) = hist.live[k]

\* C7: a flush of a buffer whose scratch is empty issues no put, delete_kv
\* or delete_all, returns success and leaves the table as it was.
C7_FlushCleanIsNoop ==
    [][(last'.op = "flush" /\ DOMAIN scratch = {}) =>
          /\ flushed'.log = <<>>
          /\ flushed'.res = "Ok"
          /\ table' = table]_vars

C7_Witness ==
    /\ last.op = "flush"
    /\ DOMAIN scratch = {}
    /\ \E k \in Keys : table[k] # {}
    /\ flushed = [res |-> "Ok", log |-> <<>>]

\* C8: get changes neither the table nor the scratch, and its result
\* reflects the calls made on the buffer whether or not they were flushed.
C8_GetIsPure ==
    [][last'.op = "get" =>
          LET k == last'.k
          IN  /\ table' = table
              /\ scratch' = scratch
              /\ AllOk(got')
              /\ Vals(got') = IF k \in hist.wiped THEN hist.live[k]
                              ELSE hist.live[k] \cup (Persisted(table, k) \ hist.dead[k])]_vars

C8_Witness ==
    /\ last.op = "get"
    /\ ~hist.done
    /\ hist.live[last.k] # {}
    /\ hist.dead[last.k] # {}
    /\ hist.live[last.k] \cap Persisted(table, last.k) = {}
    /\ hist.dead[last.k] \subseteq Persisted(table, last.k)
    /\ Vals(got) # Persisted(table, last.k)

\* C9: delete_all(k) makes k's scratch entry an empty delta map with
\* delete_all = true; a value inserted for k before it (and not since) is
\* not returned by get(k) afterwards and is not written by a later flush.
C9_DeleteAllResets ==
    [][/\ last'.op = "delete_all" =>
             /\ last'.k \in DOMAIN scratch'
             /\ scratch'[last'.k] = [delete_all |-> TRUE, deltas |-> EmptyMap]
       /\ last'.op = "get" => Vals(got') \cap hist'.dropped[last'.k] = {}
       /\ last'.op = "flush" =>
             \A i \in DOMAIN flushed'.log :
                 flushed'.log[i].op = "put" =>
                     \A v \in hist'.dropped[flushed'.log[i].k] :
                         flushed'.log[i].raw # Blob(encode(v))]_vars

C9_Witness ==
    /\ last.op = "get"
    /\ last.k \in hist.wiped
    /\ hist.dropped[last.k] # {}
    /\ hist.dropped[last.k] \cap Persisted(table, last.k) = {}
    /\ got = <<>>

\* C10: for one (key, value) pair the scratch holds the most recent of
\* insert and delete: a value deleted last is hidden from get and absent
\* after a flush, a value inserted last is returned by get and persisted
\* by a flush, and neither call changes the key's delete_all flag.
C10_LastWriteWins ==
    [][/\ last'.op \in {"insert", "delete"} =>
             LET k == last'.k
                 v == last'.v
                 had == k \in DOMAIN scratch
             IN  /\ k \in DOMAIN scratch'
                 /\ v \in DOMAIN scratch'[k].deltas
                 /\ scratch'[k].deltas[v] = (IF last'.op = "insert" THEN "Insert" ELSE "Delete")
                 /\ scratch'[k].delete_all = (had /\ scratch[k].delete_all)
                 /\ \A u \in DOMAIN scratch'[k].deltas \ {v} :
                       had /\ u \in DOMAIN scratch[k].deltas
                           /\ scratch'[k].deltas[u] = scratch[k].deltas[u]
       /\ last'.op = "get" =>
             /\ hist'.live[last'.k] \subseteq Vals(got')
             /\ hist'.dead[last'.k] \cap Vals(got') = {}
       /\ (last'.op = "flush" /\ flushed'.res = "Ok") =>
             \A k \in Keys :
                 /\ hist'.live[k] \subseteq Persisted(table', k)
                 /\ hist'.dead[k] \cap Persisted(table', k) = {}]_vars

C10_Witness ==
    LET o == hist.over
    IN  /\ o.was = "Insert"
        /\ o.v \in hist.dead[o.k]
        /\ last = Call("get", o.k, 0)
        /\ o.v \in Persisted(table, o.k)
        /\ o.v \notin Vals(got)

\* C11: flush_to_txn_ref does not reset the buffer: after a flush, whether
\* it succeeded or failed, the scratch holds exactly the deltas it held
\* before, is_clean() answers as it did before, and a second flush issues
\* the calls of the first again, in the same order.
C11_FlushKeepsScratch ==
    [][last'.op = "flush" =>
          /\ scratch' = scratch
          /\ is_clean(scratch') = is_clean(scratch)
          /\ (~is_clean(scratch) /\ flushed'.res = "Ok") => flushed'.log # <<>>
          /\ hist.done =>
                LET first == flushed.log
                    again == flushed'.log
                IN  /\ Len(again) <= Len(first)
                    /\ \A i \in 1..Len(again) : SameCall(first[i], again[i])
                    /\ flushed'.res = "Ok" => Len(again) = Len(first)]_vars

C11_Witness ==
    /\ last.op = "flush"
    /\ hist.twice
    /\ ~is_clean(scratch)
    /\ flushed.res = "DatabaseError"
    /\ Len(flushed.log) = 2

\* The items of a result of get that are the error e.
Errors(items, e) == {i \in DOMAIN items : ~items[i].ok /\ items[i].e = e}

\* C12: when the persisted values of k are consulted (no scratch entry, or
\* delete_all = false), every persisted row that cannot be read, is no
\* blob or does not decode is one error item of the result of get(k)
\* (DatabaseError, InvalidValue, SerializedBytesError), so the result is
\* never all Ok when there is such a row; only rows without a value are
\* skipped, and the Ok items are those of the merge.
C12_GetSurfacesErrors ==
    (last.op = "get" /\ (last.k \in DOMAIN scratch => ~scratch[last.k].delete_all)) =>
        LET rows == table[last.k]
            d == IF last.k \in DOMAIN scratch THEN scratch[last.k].deltas ELSE EmptyMap
            good == Marked(d, "Insert") \cup (Persisted(table, last.k) \ DOMAIN d)
            bad == rows \cap {Undecodable, NotBlob, Unreadable}
        IN  /\ Cardinality(Errors(got, "InvalidValue")) = Cardinality(rows \cap {NotBlob})
            /\ Cardinality(Errors(got, "SerializedBytesError")) = Cardinality(rows \cap {Undecodable})
            /\ Cardinality(Errors(got, "DatabaseError")) = Cardinality(rows \cap {Unreadable})
            /\ bad # {} => ~AllOk(got)
            /\ Vals(got) = good
            /\ Len(got) = Cardinality(good) + Cardinality(bad)

C12_Witness ==
    /\ last.op = "get"
    /\ last.k \in DOMAIN scratch
    /\ scratch[last.k] = [delete_all |-> FALSE, deltas |-> (3 :> "Insert")]
    /\ table[last.k] = {NotBlob, NoValue}
    /\ got = <<Ok(3), Err("InvalidValue")>>

\* ---------------------------------------- claims, coordinate system
Telescoping == run.op = "telescoping_times"
Telescoped == Telescoping /\ run.pc = "done"
Halved == run.op = "halve"

One == Bits(1)

\* The sum of the lengths of the segments of a sequence.
RECURSIVE SumLengths(_)
SumLengths(segs) ==
    IF segs = <<>> THEN <<>> ELSE Add(length(Head(segs)).v, SumLengths(Tail(segs)))

\* C13: on the identity topology the lengths of the segments of
\* telescoping_times(now) sum to now, for the small values of now and for
\* those around every power of two up to u32::MAX; no operation on the way
\* overflows or underflows (every call of the helper has t + offset = now).
C13_TelescopingSum ==
    Telescoping =>
        /\ ~run.ovf
        /\ run.pc # "panic"
        /\ run.pc = "helper" => Add(run.t, run.offset) = run.arg
        /\ run.pc = "done" => SumLengths(run.out) = run.arg

C13_Witness ==
    /\ Telescoped
    /\ run.checks
    /\ run.arg = u32_MAX
    /\ SumLengths(run.out) = u32_MAX
    /\ run.out[1].power = bit_depth - 1

\* The segments of a sequence, read as the intervals their bounds() give,
\* cover [0, now) from its start to its end, each starting one past the
\* high bound of the one before.
Covers(segs, now) ==
    IF segs = <<>> THEN now = <<>>
    ELSE /\ bounds(segs[1]).low = <<>>
         /\ \A i \in 1..(Len(segs) - 1) :
               bounds(segs[i + 1]).low = Add(bounds(segs[i]).high, One)
         /\ Add(bounds(segs[Len(segs)]).high, One) = now

\* C14: the segments of telescoping_times(now), each read as the interval
\* its bounds() gives, cover [0, now) with no gap and no overlap.
C14_TelescopingCovers == Telescoped => Covers(run.out, run.arg)

\* C15: for now > 0 the last segment of telescoping_times(now) has power 0;
\* for now below the quantum (now = 0) the result is empty.
C15_TelescopingEndsWithQuantum ==
    Telescoped =>
        IF Less(run.arg, Bits(quantum)) THEN run.out = <<>>
        ELSE run.out # <<>> /\ run.out[Len(run.out)].power = 0

C15_Witness ==
    /\ Telescoped
    /\ Len(run.out) >= 3
    /\ run.out[1].power > 1
    /\ run.out[Len(run.out)].power = 0

\* C16: the powers of the segments of telescoping_times(now) do not
\* increase along the returned order, and the first segment is the one of
\* the oldest time: its offset is 0, every other one's is larger.
C16_TelescopingPowersDescend ==
    Telescoped =>
        /\ \A i, j \in DOMAIN run.out : i < j => run.out[i].power >= run.out[j].power
        /\ run.out # <<>> =>
              /\ run.out[1].offset = <<>>
              /\ bounds(run.out[1]).low = <<>>
              /\ \A i \in 2..Len(run.out) : Less(run.out[1].offset, run.out[i].offset)

C16_Witness ==
    /\ Telescoped
    /\ Len(run.out) >= 2
    /\ run.out[1].offset = <<>>
    /\ run.out[1].power > run.out[Len(run.out)].power

\* lengths(topo, t) of the tests.
lengths(segs) == [i \in DOMAIN segs |-> Num(length(segs[i]).v)]

first_16 ==
    <<  <<>>, <<1>>, <<1, 1>>, <<2, 1>>, <<2, 1, 1>>, <<2, 2, 1>>, <<2, 2, 1, 1>>,
        <<4, 2, 1>>, <<4, 2, 1, 1>>, <<4, 2, 2, 1>>, <<4, 2, 2, 1, 1>>, <<4, 4, 2, 1>>,
        <<4, 4, 2, 1, 1>>, <<4, 4, 2, 2, 1>>, <<4, 4, 2, 2, 1, 1>>, <<8, 4, 2, 1>>  >>

\* C17: on the identity topology the lengths of the segments of
\* telescoping_times(now), for now from 0 to 15, are those of the table of
\* test_telescoping_times_first_16_identity_topology.
C17_TelescopingFirst16 ==
    (Telescoped /\ Less(run.arg, Bits(Len(first_16)))) =>
        lengths(run.out) = first_16[Num(run.arg) + 1]

C17_Witness ==
    /\ Telescoped
    /\ run.arg = Bits(15)
    /\ lengths(run.out) = <<8, 4, 2, 1>>

\* C18: telescoping_times(now) returns at most 2 * floor(log2(now + 1))
\* segments, and the helper has returned after at most that many calls
\* that recurse and the one that does not.
C18_TelescopingIsLogarithmic ==
    Telescoping =>
        LET most == 2 * Log2Floor(Add(run.arg, One))
        IN  /\ Len(run.stack) + Len(run.out) <= most
            /\ run.calls <= most + 1
            /\ run.pc \in {"return", "done"} => run.calls = Len(run.stack) + Len(run.out) + 1

C18_Witness ==
    /\ Telescoped
    /\ run.arg = Sub(u32_MAX, One)
    /\ Len(run.out) = 2 * (bit_depth - 1)
    /\ run.calls = Len(run.out) + 1

\* The interval of the segment lies in the u32 range:
\* offset * 2^power + 2^power - 1 <= u32::MAX.
InRange(seg) ==
    ~Less(u32_MAX, Sub(Add(Shl(seg.offset, seg.power), Pow2(seg.power)), One))

\* The children of a halved segment recombine to the bounds of the parent.
Recombines(parent, h) ==
    /\ h.some
    /\ ~bounds(parent).ovf /\ ~bounds(h.c1).ovf /\ ~bounds(h.c2).ovf
    /\ bounds(h.c1).low = bounds(parent).low
    /\ bounds(h.c2).high = bounds(parent).high
    /\ Add(bounds(h.c1).high, One) = bounds(h.c2).low

\* C19, as stated: for every segment with power > 0 and every offset,
\* halve() returns two children that recombine to the parent's bounds.
C19_HalveRecombinesAny ==
    (Halved /\ run.arg.power > 0) => (run.pc = "done" /\ Recombines(run.arg, run.out))

\* C19, amended: for every segment with power > 0 whose interval lies in
\* the u32 range, halve() returns, without overflow, two children with
\* c1.low = parent.low, c2.high = parent.high and c1.high + 1 = c2.low.
C19_HalveRecombines ==
    (Halved /\ run.arg.power > 0 /\ InRange(run.arg)) =>
        (run.pc = "done" /\ ~run.ovf /\ Recombines(run.arg, run.out))

C19_Witness ==
    /\ Halved
    /\ run.arg = Segment_new(bit_depth, <<>>)
    /\ run.pc = "done"
    /\ bounds(run.out.c1).high = Sub(Pow2(bit_depth - 1), One)
    /\ bounds(run.out.c2).low = Pow2(bit_depth - 1)
    /\ bounds(run.out.c2).high = u32_MAX

\* halve() has returned the segments (p - 1, 2 * o) and (p - 1, 2 * o + 1),
\* in that order, without overflow.
ExactHalves(seg, r) ==
    /\ r.pc = "done"
    /\ ~r.ovf
    /\ r.out = [some |-> TRUE, ovf |-> FALSE,
                c1 |-> Segment_new(seg.power - 1, Add(seg.offset, seg.offset)),
                c2 |-> Segment_new(seg.power - 1, Add(Add(seg.offset, seg.offset), One))]

\* C20, as stated: halve() returns nothing exactly when power = 0; for
\* every power p > 0 and every u32 offset o it returns (p - 1, 2 * o) and
\* (p - 1, 2 * o + 1), in that order, without overflow, and changes
\* nothing else.
C20_HalveAnyOffset ==
    [][(run.pc = "idle" /\ run'.op = "halve") =>
          /\ UNCHANGED kvv
          /\ run'.arg.power = 0 => (run'.pc = "done" /\ run'.out = None)
          /\ run'.arg.power > 0 => ExactHalves(run'.arg, run')]_vars

\* C20, amended: halve() returns nothing exactly when power = 0; for every
\* power p > 0 and every offset o < 2^31 it returns (p - 1, 2 * o) and
\* (p - 1, 2 * o + 1), in that order, without overflow, and changes nothing
\* else; for o >= 2^31 the product offset * 2 overflows: the call panics in
\* a build with overflow checks and returns the offsets 2 * o mod 2^32 and
\* 2 * o mod 2^32 + 1 in a build without.
C20_HalveOffsets ==
    [][(run.pc = "idle" /\ run'.op = "halve") =>
          LET seg == run'.arg
              twice == Add(seg.offset, seg.offset)
          IN  /\ UNCHANGED kvv
              /\ seg.power = 0 => (run'.pc = "done" /\ run'.out = None)
              /\ (seg.power > 0 /\ Less(seg.offset, Pow2(bit_depth - 1))) =>
                    ExactHalves(seg, run')
              /\ (seg.power > 0 /\ ~Less(seg.offset, Pow2(bit_depth - 1))) =>
                    /\ run'.ovf
                    /\ run'.checks => run'.pc = "panic"
                    /\ ~run'.checks =>
                          /\ run'.pc = "done"
                          /\ run'.out.some
                          /\ run'.out.c1 = Segment_new(seg.power - 1, Trunc(twice, bit_depth))
                          /\ run'.out.c2 = Segment_new(seg.power - 1,
                                                       Add(Trunc(twice, bit_depth), One))]_vars

C20_Witness ==
    /\ Halved
    /\ run.arg.power > 0
    /\ run.arg.offset = Sub(Pow2(bit_depth - 1), One)
    /\ run.pc = "done"
    /\ ~run.ovf
    /\ run.out.c1.offset = Sub(u32_MAX, One)
    /\ run.out.c2.offset = u32_MAX

\* C21: for every segment with power <= 32 whose interval lies in the u32
\* range, bounds() returns (offset * 2^power, offset * 2^power + 2^power - 1)
\* exactly: no operation overflows and the narrowing to u32 drops nothing;
\* the bounds of the segment (32, 0) are (0, u32::MAX).
C21_BoundsExact ==
    (run.op = "bounds" /\ run.arg.power <= bit_depth /\ InRange(run.arg)) =>
        LET low == Shl(run.arg.offset, run.arg.power)
        IN  /\ run.pc = "done"
            /\ ~run.ovf
            /\ run.out.low = low
            /\ run.out.high = Sub(Add(low, Pow2(run.arg.power)), One)
            /\ ~Less(u32_MAX, run.out.high)
            /\ run.arg = Segment_new(bit_depth, <<>>) =>
                  run.out = [low |-> <<>>, high |-> u32_MAX]

C21_Witness ==
    /\ run.op = "bounds"
    /\ run.checks
    /\ run.arg = Segment_new(bit_depth, <<>>)
    /\ run.pc = "done"
    /\ run.out = [low |-> <<>>, high |-> u32_MAX]

\* C22: exp(pow) never returns a silently wrapped value: whenever it
\* returns, for any coordinate value and any pow, the result is the exact
\* product value * 2^pow.
C22_ExpNeverWraps ==
    (run.op = "exp" /\ run.pc = "done") =>
        run.out = Mul(run.arg.value, Pow2(run.arg.pow))

\* C23: exp_wrapping(pow) returns (value * 2^pow) mod 2^32 for every
\* coordinate value and every u8 pow, without failing, and agrees with
\* exp(pow) whenever value * 2^pow fits 32 bits.
C23_ExpWrappingTotal ==
    run.op = "exp_wrapping" =>
        LET exact == Mul(run.arg.value, Pow2(run.arg.pow))
            e == exp(run.arg.value, run.arg.pow)
        IN  /\ run.pc = "done"
            /\ run.out = Trunc(exact, bit_depth)
            /\ Len(exact) <= bit_depth => (~(e.ovf /\ run.checks) /\ e.v = run.out)

\* C24: on an identity topology time_coord(timestamp) is the timestamp in
\* microseconds minus the topology's time_origin, truncated to 32 bits, and
\* two topologies that differ only in time_origin map a timestamp to
\* coordinates that differ by the difference of the origins mod 2^32.
C24_TimeCoordFromOrigin ==
    (run.op = "time_coord" /\ run.arg.topo = Topology_identity(run.arg.topo.time_origin)) =>
        /\ run.pc = "done"
        /\ run.out = Trunc(sub(run.arg.timestamp, run.arg.topo.time_origin, u64_bits).v,
                           bit_depth)
        /\ \A origin \in Origins :
              LET other == time_coord(Topology_identity(origin), run.arg.timestamp)
              IN  /\ other.ok
                  /\ sub(other.v, run.out, bit_depth).v =
                        Trunc(sub(run.arg.topo.time_origin, origin, u64_bits).v, bit_depth)

\* C25: space_coord fails with its assertion whenever the space dimension
\* is not the identity dimension (quantum 1, size u32::MAX, bit depth 32)
\* and time_coord likewise for the time dimension; neither returns a
\* coordinate for a non-identity dimension, and each looks at its own axis
\* only.
C25_IdentityOnly ==
    LET identity == [quantum |-> 1, size |-> u32_MAX, bit_depth |-> 32]
    IN  /\ run.op = "space_coord" =>
              IF run.arg.topo.space = identity
              THEN run.pc = "done" /\ run.out = run.arg.loc
              ELSE run.pc = "panic" /\ run.out = space_unsupported
        /\ run.op = "time_coord" =>
              IF run.arg.topo.time = identity
              THEN run.pc = "done"
              ELSE run.pc = "panic" /\ run.out = time_unsupported

C25_Witness ==
    /\ run.op = "space_coord"
    /\ run.arg.topo.space = [Dimension_identity EXCEPT !.bit_depth = bit_depth - 1]
    /\ run.arg.topo.time = Dimension_identity
    /\ run.pc = "panic"
    /\ run.out = space_unsupported

\* The bounds of a region's coordinates, from the intervals of its segments.
BoundsOf(coords) ==
    LET low(seg) == Shl(seg.offset, seg.power)
        high(seg) == Sub(Add(low(seg), Pow2(seg.power)), One)
    IN  [x |-> <<low(coords.space), high(coords.space)>>,
         t |-> <<low(coords.time), high(coords.time)>>]

\* C26: split(tree) returns nothing exactly when the region's coordinates
\* cannot be halved; otherwise it returns two child regions whose
\* coordinates are the two halves, in order, and whose data is the tree's
\* lookup of that child's own bounds, not the region's data.
C26_SplitLooksUpChildren ==
    run.op = "split" =>
        LET region == run.arg.region
            axis == run.arg.axis
            seg == region.coords[axis]
            c1 == [region.coords EXCEPT
                     ![axis] = Segment_new(seg.power - 1, Add(seg.offset, seg.offset))]
            c2 == [region.coords EXCEPT
                     ![axis] = Segment_new(seg.power - 1, Add(Add(seg.offset, seg.offset), One))]
            data(c) == [tree |-> run.arg.tree, x |-> BoundsOf(c).x, t |-> BoundsOf(c).t]
        IN  /\ run.pc = "done"
            /\ run.out.some <=> seg.power > 0
            /\ run.out.some =>
                  /\ run.out.r1 = [coords |-> c1, data |-> data(c1)]
                  /\ run.out.r2 = [coords |-> c2, data |-> data(c2)]
                  /\ run.out.r1.data # run.out.r2.data
                  /\ region.data \notin {run.out.r1.data, run.out.r2.data}

C26_Witness ==
    /\ run.op = "split"
    /\ run.arg.axis = "space"
    /\ run.arg.region.coords.space = Segment_new(bit_depth, Bits(0))
    /\ run.arg.region.coords.time = Segment_new(0, Bits(1))
    /\ run.pc = "done"
    /\ run.out.some
    /\ run.out.r2.coords.space = Segment_new(bit_depth - 1, Bits(1))
    /\ run.out.r2.data.x = <<Pow2(bit_depth - 1), u32_MAX>>

\* C27: get(k) never returns a value twice when the persisted values of k
\* are distinct: a value both marked Insert in the scratch and persisted
\* appears once, in the scratch part, which precedes the persisted part.
C27_GetHasNoDuplicates ==
    last.op = "get" =>
        LET k == last.k
            deltas == IF k \in DOMAIN scratch THEN scratch[k].deltas ELSE EmptyMap
            ins == Marked(deltas, "Insert")
            n == Cardinality(ins)
        IN  /\ \A i, j \in DOMAIN got : i # j => got[i] # got[j]
            /\ Len(got) >= n
            /\ {got[i] : i \in 1..n} = {Ok(v) : v \in ins}
            /\ \A i \in (n + 1)..Len(got) :
                  got[i].ok /\ got[i].v \in Persisted(table, k) \ DOMAIN deltas

C27_Witness ==
    /\ last.op = "get"
    /\ last.k \in DOMAIN scratch
    /\ ~scratch[last.k].delete_all
    /\ Len(got) = 2
    /\ got[1].v \in Marked(scratch[last.k].deltas, "Insert") \cap Persisted(table, last.k)
    /\ got[2].v \in Persisted(table, last.k) \ DOMAIN scratch[last.k].deltas

\* The table calls a flush of the scratch s over the table t issues for key k.
WritesFor(s, t, k) ==
    SelectSeq(flush_to_txn_ref(s, t, NoFail).log, LAMBDA call : call.k = k)

C29_FlushTwiceIsIdempotent ==
    [][(last.op = "flush" /\ flushed.res = "Ok" /\
        last'.op = "flush" /\ flushed'.res = "Ok" /\ hist'.twice) =>
          /\ \A k \in Keys : Persisted(table', k) = Persisted(table, k)
          /\ table' = table]_vars

C29_Witness ==
    /\ last.op = "flush"
    /\ hist.twice
    /\ flushed.res = "Ok"
    /\ \E k \in DOMAIN scratch :
          /\ scratch[k].delete_all
          /\ Marked(scratch[k].deltas, "Insert") # {}
          /\ Persisted(table, k) = Marked(scratch[k].deltas, "Insert")
          /\ Len(flushed.log) = 2

====
